---- MODULE Spec2Model ----
(***************************************************************************)
(* Model of pymc_extras/statespace/models/utilities.py: the Harvey state   *)
(* names and the SARIMA transition matrix built from an order              *)
(* (p, d, q, P, D, Q, S), the state-name cleaner, and the time-dimension   *)
(* conformer of a pair of statespace matrices.                             *)
(*                                                                         *)
(* A Python str is a sequence of one-character strings, so that            *)
(* str.replace, the "in" test and the f-string number formatting are       *)
(* computed character by character.  A numpy index array is a sequence of  *)
(* integers (1-based in the sequence, 0-based in its values), and the      *)
(* matrix T is a function over 0-based (row, column) pairs.                *)
(***************************************************************************)
EXTENDS Integers, Sequences, FiniteSets, TLC

VARIABLES
    order,        \* the order (p, d, q, P, D, Q, S) the two SARIMA builders are called with
    state_names,  \* the list make_harvey_state_names returned
    T,            \* the matrix make_SARIMA_transition_matrix returned
    states,       \* the argument of the last cleanup_states call
    out,          \* what that call returned
    A, B,         \* the arguments of the last conform call
    conform_ret,  \* its outcome: the returned pair, or the error raised
    done          \* the functions that have been called

vars == <<order, state_names, T, states, out, A, B, conform_ret, done>>

\* ------------------------------------------------------------------ bounds
MaxAR == 1
MaxSeasonalAR == 1
MaxDiff == 2
MaxSeasonalDiff == 2
MaxSeason == 4
MaxStates == 3
MaxTime == 3

\* ------------------------------------------------------- python primitives
Max(a, b) == IF a >= b THEN a ELSE b

\* int(b) of a bool
BoolInt(b) == IF b THEN 1 ELSE 0

\* range(n) as a sequence 0, 1, .., n-1 (empty when n <= 0)
Range(n) == [i \in 1..n |-> i - 1]

Digits == <<"0", "1", "2", "3", "4", "5", "6", "7", "8", "9">>

\* the decimal text of an integer, as an f-string renders it
RECURSIVE Str(_)
Str(n) ==
    IF n < 0 THEN <<"-">> \o Str(-n)
    ELSE IF n < 10 THEN <<Digits[n + 1]>>
    ELSE Str(n \div 10) \o <<Digits[(n % 10) + 1]>>

\* s.startswith(pat)
StartsWith(s, pat) == Len(s) >= Len(pat) /\ SubSeq(s, 1, Len(pat)) = pat

\* pat in s
Contains(s, pat) ==
    \E i \in 1..(Len(s) - Len(pat) + 1) : SubSeq(s, i, i + Len(pat) - 1) = pat

\* s.replace(pat, ""): the non-overlapping occurrences, found left to right
RECURSIVE Replace(_, _)
Replace(s, pat) ==
    IF Len(s) < Len(pat) THEN s
    ELSE IF StartsWith(s, pat) THEN Replace(SubSeq(s, Len(pat) + 1, Len(s)), pat)
    ELSE <<Head(s)>> \o Replace(Tail(s), pat)

\* --------------------------------------------------------- string literals
sData == <<"d", "a", "t", "a">>
sDotData == <<".", "d", "a", "t", "a">>
sDataStar == <<"d", "a", "t", "a", "_", "s", "t", "a", "r">>
sStar == <<"s", "t", "a", "r">>
sUStar == <<"_", "s", "t", "a", "r">>
sState == <<"s", "t", "a", "t", "e">>
sCaret1 == <<"^", "1">>
sCaret0 == <<"^", "0">>
sL0 == <<"L", "0">>
sD0 == <<"D", "0">>
sEmpty == <<>>

\* ----------------------------------------------------------- cleanup_states
\* faulty variant: the last replacement, of "D0", left out
cleanup_one_nod0(state) ==
    Replace(Replace(Replace(state, sCaret1), sCaret0), sL0)

\* the four replacements applied to one state name, in the code's order
cleanup_one(state) ==
    Replace(Replace(Replace(Replace(state, sCaret1), sCaret0), sL0), sD0)

cleanup_states(sts) == [i \in 1..Len(sts) |-> cleanup_one(sts[i])]

\* ------------------------------------------------------------ derived sizes
\* k_lags = max(p + P * S, q + Q * S + 1)
k_lags(p, q, P, Q, S) == Max(p + P * S, q + Q * S + 1)

\* n_diffs = S * D + d
n_diffs(d, D, S) == S * D + d

\* k_states = k_lags + n_diffs
k_states(p, d, q, P, D, Q, S) == k_lags(p, q, P, Q, S) + n_diffs(d, D, S)

\* -------------------------------------------------- make_harvey_state_names
\* faulty variant: the seasonal differences not counted
has_diff_mut(d, D) == d > 0

has_diff(d, D) == (d + D) > 0

\* faulty variant: every seasonal difference counted, not just their presence
d_size_mut(d, D) == d + D

d_size(d, D) == d + BoolInt(D > 0)

\* f"D{k}^{i}"
DiffName(k, i) == <<"D">> \o Str(k) \o <<"^">> \o Str(i)

\* [f"D1^{(i + 1)}.data" for i in range(d_size)[:-1]]
arima_diff_states(dsz) ==
    [i \in 1..Max(dsz - 1, 0) |-> DiffName(1, i) \o sDotData]

\* [f"L{j + 1}{curr_state}.data" for j in range(S - 1)]
lag_states(curr_state, S) ==
    [j \in 1..Max(S - 1, 0) |-> <<"L">> \o Str(j) \o curr_state \o sDotData]

\* the loop "for i in range(D)", from iteration i on; cnt is season_diff[1]
RECURSIVE season_loop(_, _, _, _, _, _, _)
season_loop(i, D, S, arma, cnt, curr_state, sts) ==
    IF i >= D THEN sts
    ELSE LET lagged == sts \o lag_states(curr_state, S)
             cnt2 == cnt + 1
             curr2 == DiffName(arma[1], arma[2]) \o DiffName(S, cnt2)
             sts2 == IF i # D - 1 THEN Append(lagged, curr2 \o sDotData)
                     ELSE lagged
         IN season_loop(i + 1, D, S, arma, cnt2, curr2, sts2)

\* faulty variant: the suffix never set
suffix_mut(sts) == sEmpty

\* suffix = "_star" if "star" in states[-1] else ""
suffix(sts) == IF Contains(sts[Len(sts)], sStar) THEN sUStar ELSE sEmpty

\* [f"state{suffix}_{i + 1}" for i in range(k_lags - 1)]
dynamics_states(suf, kl) ==
    [i \in 1..Max(kl - 1, 0) |-> sState \o suf \o <<"_">> \o Str(i)]

make_harvey_state_names(p, d, q, P, D, Q, S) ==
    LET kl == k_lags(p, q, P, Q, S)
        dsz == d_size(d, D)
        s1 == <<sData>> \o arima_diff_states(dsz)
        arma == <<BoolInt(dsz > 1), dsz - 1>>
        s2 == season_loop(0, D, S, arma, 0, DiffName(arma[1], arma[2]), s1)
        s3 == IF has_diff(d, D) THEN Append(s2, sDataStar) ELSE s2
        s4 == s3 \o dynamics_states(suffix(s3), kl)
    IN cleanup_states(s4)

\* ------------------------------------------------ numpy index-array helpers
\* np.tile(a, n): the whole array, n times over
Tile(a, n) == [k \in 1..(Len(a) * n) |-> a[((k - 1) % Len(a)) + 1]]

\* a.repeat(n): each element n times in a row
Repeat(a, n) == [k \in 1..(Len(a) * n) |-> a[((k - 1) \div n) + 1]]

\* np.full(n, v)
Full(n, v) == [k \in 1..n |-> v]

\* a[i:], i a 0-based start
From(a, i) == SubSeq(a, i + 1, Len(a))

\* the 0-based positions start, start + step, .. below n: those of a[start::step]
SlicePositions(n, start, step) ==
    {k \in 0..(n - 1) : k >= start /\ (k - start) % step = 0}

\* the (row, column) pairs of a pair of index arrays of one length
Pairs(row_idx, col_idx) == {<<row_idx[k], col_idx[k]>> : k \in 1..Len(row_idx)}

\* np.zeros((n, n))
Zeros(n) == [x \in (0..(n - 1)) \X (0..(n - 1)) |-> 0]

\* M[idx] = v, in place
SetAt(M, idx, v) == [x \in DOMAIN M |-> IF x \in idx THEN v ELSE M[x]]

\* -------------------------------------------- make_SARIMA_transition_matrix
\* faulty variant: the diagonal left out, as np.triu_indices(d, 1)
triu_indices_mut(d) == {<<r, c>> \in (0..(d - 1)) \X (0..(d - 1)) : r < c}

\* np.triu_indices(d): on and above the diagonal of a d x d square
triu_indices(d) == {<<r, c>> \in (0..(d - 1)) \X (0..(d - 1)) : r <= c}

\* base_col_idx = d + S + np.arange(D) * S - 1, then its last entry plus one appended
base_col_idx(d, D, S) ==
    LET base == [j \in 1..D |-> d + S + (j - 1) * S - 1]
    IN IF Len(base) > 0 THEN Append(base, base[Len(base)] + 1) ELSE base

\* the loop "for i in range(D)" over (row_idx, col_idx), from iteration i on
RECURSIVE recovery_loop(_, _, _, _, _, _)
recovery_loop(i, d, D, S, base, idx) ==
    IF i >= D THEN idx
    ELSE LET tail == From(base, i)
             n == Len(tail)
         IN recovery_loop(i + 1, d, D, S, base,
                [row |-> idx.row \o Full(n, d + S * i), col |-> idx.col \o tail])

\* the special case "if D == 0 and d > 0"
recovery_special(d, D, idx) ==
    IF D = 0 /\ d > 0 THEN [row |-> Range(d), col |-> Full(d, d)] ELSE idx

\* (row_idx, col_idx) as they stand at "T[row_idx, col_idx] = 1"
recovery_idx(d, D, S) ==
    LET base == base_col_idx(d, D, S)
        first == [row |-> Repeat(Range(d), D + 1), col |-> Tile(base, d)]
    IN recovery_special(d, D, recovery_loop(0, d, D, S, base, first))

\* (row_roll_idx, col_roll_idx): np.diag_indices(S * D) shifted by (d + 1, d)
roll_idx(d, D, S) ==
    [row |-> [k \in 1..(S * D) |-> (k - 1) + d + 1],
     col |-> [k \in 1..(S * D) |-> (k - 1) + d]]

\* faulty variant: the slice taken from S on, as [S :: S]
zero_positions_mut(d, D, S) == SlicePositions(S * D, S, S)

\* the positions [S - 1 :: S] of the rolling diagonal
zero_positions(d, D, S) == SlicePositions(S * D, S - 1, S)

\* zero_idx = row_roll_idx[S - 1 :: S], col_roll_idx[S - 1 :: S]
zero_idx(d, D, S) ==
    LET roll == roll_idx(d, D, S)
    IN {<<roll.row[k + 1], roll.col[k + 1]>> : k \in zero_positions(d, D, S)}

\* faulty variant: the row and column offsets swapped
star_roll_mut(kl, nd) ==
    [row |-> [k \in 1..(kl - 1) |-> (k - 1) + nd + 1],
     col |-> [k \in 1..(kl - 1) |-> (k - 1) + nd]]

\* (star_roll_row, star_roll_col): np.diag_indices(k_lags - 1) shifted by
\* (n_diffs, n_diffs + 1)
star_roll(kl, nd) ==
    [row |-> [k \in 1..(kl - 1) |-> (k - 1) + nd],
     col |-> [k \in 1..(kl - 1) |-> (k - 1) + nd + 1]]

make_SARIMA_transition_matrix(p, d, q, P, D, Q, S) ==
    LET nd == n_diffs(d, D, S)
        kl == k_lags(p, q, P, Q, S)
        ks == kl + nd
        T0 == Zeros(ks)
        T1 == SetAt(T0, triu_indices(d), 1)
        rec == recovery_idx(d, D, S)
        T2 == SetAt(T1, Pairs(rec.row, rec.col), 1)
        roll == roll_idx(d, D, S)
        T3 == IF S > 0
              THEN SetAt(SetAt(T2, Pairs(roll.row, roll.col), 1), zero_idx(d, D, S), 0)
              ELSE T2
        star == star_roll(kl, nd)
    IN SetAt(T3, Pairs(star.row, star.col), 1)

\* --------------------------------------------- the SARIMA builders' callers
\* the orders the builders accept: non-negative, with S >= 1 whenever D > 0
Orders ==
    {o \in [p : 0..MaxAR, d : 0..MaxDiff, q : 0..MaxAR, P : 0..MaxSeasonalAR,
            D : 0..MaxSeasonalDiff, Q : 0..MaxSeasonalAR, S : 0..MaxSeason] :
        o.D > 0 => o.S >= 1}

NoOrder == [p |-> 0, d |-> 0, q |-> 0, P |-> 0, D |-> 0, Q |-> 0, S |-> 0]

Idle ==
    /\ state_names = <<>>
    /\ T = Zeros(0)
    /\ states = <<>>
    /\ out = <<>>
    /\ A = <<>>
    /\ B = <<>>
    /\ conform_ret = <<>>
    /\ done = {}

InitSarima ==
    /\ order \in Orders
    /\ Idle

CallHarveyStateNames ==
    /\ "make_harvey_state_names" \notin done
    /\ state_names' = make_harvey_state_names(order.p, order.d, order.q,
                                               order.P, order.D, order.Q, order.S)
    /\ done' = done \cup {"make_harvey_state_names"}
    /\ UNCHANGED <<order, T, states, out, A, B, conform_ret>>

CallSARIMATransitionMatrix ==
    /\ "make_SARIMA_transition_matrix" \notin done
    /\ T' = make_SARIMA_transition_matrix(order.p, order.d, order.q,
                                          order.P, order.D, order.Q, order.S)
    /\ done' = done \cup {"make_SARIMA_transition_matrix"}
    /\ UNCHANGED <<order, state_names, states, out, A, B, conform_ret>>

NextSarima == CallHarveyStateNames \/ CallSARIMATransitionMatrix

SpecSarima == InitSarima /\ [][NextSarima]_vars

\* views of the matrix and of the order
NRows(M) == Cardinality({x[1] : x \in DOMAIN M})
NCols(M) == Cardinality({x[2] : x \in DOMAIN M})
NamesDone == "make_harvey_state_names" \in done
MatrixDone == "make_SARIMA_transition_matrix" \in done
KLags == k_lags(order.p, order.q, order.P, order.Q, order.S)
NDiffs == order.S * order.D + order.d
KStates == order.S * order.D + order.d
           + Max(order.p + order.P * order.S, order.q + order.Q * order.S + 1)

\* ------------------------------------------------- cleanup_states' callers
sD1c1Data == <<"D", "1", "^", "1", ".", "d", "a", "t", "a">>
sL0Data == <<"L", "0", ".", "d", "a", "t", "a">>
sD0c0 == <<"D", "0", "^", "0">>
sL1D0c0Data == <<"L", "1", "D", "0", "^", "0", ".", "d", "a", "t", "a">>
sD1Data == <<"D", "1", ".", "d", "a", "t", "a">>

\* the state names a caller passes in
NamePool == {sD1c1Data, sL0Data, sD0c0, sL1D0c0Data, sData}

\* the lists of at most n names
RECURSIVE ListsUpTo(_)
ListsUpTo(n) ==
    IF n = 0 THEN {<<>>}
    ELSE LET shorter == ListsUpTo(n - 1)
         IN shorter \cup {Append(l, x) : l \in shorter, x \in NamePool}

CleanupDone == "cleanup_states" \in done

InitCleanup ==
    /\ order = NoOrder
    /\ Idle

CallCleanupStates ==
    \E input \in ListsUpTo(MaxStates) :
        /\ ~CleanupDone
        /\ states' = input
        /\ out' = cleanup_states(input)
        /\ done' = {"cleanup_states"}
        /\ UNCHANGED <<order, state_names, T, A, B, conform_ret>>

NextCleanup == CallCleanupStates

SpecCleanup == InitCleanup /\ [][NextCleanup]_vars


\* ------------------------- conform_time_varying_and_time_invariant_matrices
\* A tensor variable: its name (<<>> for None, <<n>> for the name n), its
\* static type.shape (0 for an axis of unknown length) and the slices along
\* axis 0 it evaluates to, so that shape[0] at run time is Len(data).
MATRIX_NAMES == <<"x0", "P0", "c", "d", "T", "Z", "R", "H", "Q">>

LONG_MATRIX_NAMES ==
    <<"initial_state", "initial_state_cov", "state_intercept", "obs_intercept",
      "transition", "design", "selection", "obs_cov", "state_cov">>

VECTOR_VALUED == <<"x0", "state_intercept", "obs_intercept">>

\* x in l, for a Python list l
InList(x, l) == \E i \in 1..Len(l) : l[i] = x

\* X.name in l, where X.name may be None
NameIn(name, l) == Len(name) = 1 /\ InList(name[1], l)

NoName == <<>>

ndim(X) == Len(X.shape)

\* faulty variant: the slices not repeated
pt_repeat_mut(X, n) == [name |-> NoName, shape |-> <<0>> \o Tail(X.shape), data |-> X.data]

\* pt.repeat(X, n, axis=0): a new, unnamed variable
pt_repeat(X, n) ==
    [name |-> NoName, shape |-> <<0>> \o Tail(X.shape), data |-> Repeat(X.data, n)]

\* pt.specify_shape(X, shape): a new, unnamed variable of that static shape
pt_specify_shape(X, shape) == [name |-> NoName, shape |-> shape, data |-> X.data]

\* X.name = name
set_name(X, name) == [X EXCEPT !.name = name]

Returns(X, Y) == [raises |-> "", pair |-> <<X, Y>>]

Raises(error) == [raises |-> error, pair |-> <<>>]

\* lines 349-374, once the matrix name is known
conform_named(X, Y, name) ==
    LET time_varying_ndim == 3 - BoolInt(NameIn(name, VECTOR_VALUED))
    IN IF ~(ndim(X) = time_varying_ndim /\ ndim(Y) = time_varying_ndim)
       THEN Returns(X, Y)
       ELSE LET T_A == X.shape[1]
                A_dims == Tail(X.shape)
                T_B == Y.shape[1]
                B_dims == Tail(Y.shape)
            IN IF T_A = T_B THEN Returns(X, Y)
               ELSE IF T_A = 1
               THEN Returns(set_name(pt_specify_shape(pt_repeat(X, Len(Y.data)),
                                                      <<T_B>> \o A_dims), X.name), Y)
               ELSE IF T_B = 1
               THEN Returns(X, set_name(pt_specify_shape(pt_repeat(Y, Len(X.data)),
                                                         <<T_A>> \o B_dims), Y.name))
               ELSE Returns(X, Y)

conform_time_varying_and_time_invariant_matrices(X, Y) ==
    LET registry == MATRIX_NAMES \o LONG_MATRIX_NAMES
    IN IF X.name = Y.name THEN conform_named(X, Y, X.name)
       ELSE IF ~NameIn(X.name, registry) /\ ~NameIn(Y.name, registry)
       THEN Raises("ValueError")
       ELSE conform_named(X, Y, IF NameIn(X.name, registry) THEN X.name ELSE Y.name)

\* the names a caller's tensors carry: none, recognized ones (matrix- and
\* vector-valued, short and long), and one the registry does not hold
TensorNames == {NoName, <<"T">>, <<"x0">>, <<"obs_intercept">>, <<"foo">>}

\* the lengths of the axes after the first
TrailingShapes == {<<2>>, <<3>>, <<2, 2>>, <<2, 3>>}

\* (type.shape[0], shape[0] at run time): a known static length is the length
LeadingAxes ==
    {ll \in (0..MaxTime) \X (1..MaxTime) : ll[1] = 0 \/ ll[1] = ll[2]}

\* the tensors a caller passes: tag tells the slices of one from the other's
Tensors(tag) ==
    {[name |-> n, shape |-> <<ll[1]>> \o tr, data |-> [i \in 1..ll[2] |-> <<tag, i>>]] :
        n \in TensorNames, tr \in TrailingShapes, ll \in LeadingAxes}

ConformDone == "conform_time_varying_and_time_invariant_matrices" \in done

InitConform ==
    /\ order = NoOrder
    /\ Idle

CallConform ==
    \E X \in Tensors("A"), Y \in Tensors("B") :
        /\ ~ConformDone
        /\ A' = X
        /\ B' = Y
        /\ conform_ret' = conform_time_varying_and_time_invariant_matrices(X, Y)
        /\ done' = {"conform_time_varying_and_time_invariant_matrices"}
        /\ UNCHANGED <<order, state_names, T, states, out>>

NextConform == CallConform

SpecConform == InitConform /\ [][NextConform]_vars


\* ================================================================== claims
sStateStar1 == <<"s", "t", "a", "t", "e", "_", "s", "t", "a", "r", "_", "1">>
sState1 == <<"s", "t", "a", "t", "e", "_", "1">>
sD4Data == <<"D", "4", ".", "d", "a", "t", "a">>

\* the columns of row r of T that hold a one
OnesOfRow(r) == {c \in 0..(NCols(T) - 1) : T[<<r, c>>] = 1}

\* C1: once both builders have run on an order, the number of names, the number
\* of rows and the number of columns of the matrix all equal
\* k_states = S*D + d + max(p + P*S, q + Q*S + 1).
C1_SizesAgree ==
    (NamesDone /\ MatrixDone) =>
        /\ Len(state_names) = KStates
        /\ NRows(T) = KStates
        /\ NCols(T) = KStates
        /\ DOMAIN T = (0..(KStates - 1)) \X (0..(KStates - 1))

C1_Witness ==
    /\ NamesDone /\ MatrixDone
    /\ order.d = 2 /\ order.D = 2 /\ order.S = 4 /\ order.P = 1
    /\ Len(state_names) = 15

\* C3 as stated: for the order (1,1,1)x(0,0,0,0) the names are exactly
\* ["data", "data_star", "state_1"].
Order111 == [p |-> 1, d |-> 1, q |-> 1, P |-> 0, D |-> 0, Q |-> 0, S |-> 0]

C3_AsStated ==
    (NamesDone /\ order = Order111) => state_names = <<sData, sDataStar, sState1>>

\* C3, amended: for the order (1,1,1)x(0,0,0,0) the names are exactly
\* ["data", "data_star", "state_star_1"]: the dynamics states after a
\* "data_star" state carry the "_star" suffix.
C3_Amended ==
    (NamesDone /\ order = Order111) => state_names = <<sData, sDataStar, sStateStar1>>

C3_Witness == NamesDone /\ order = Order111 /\ Len(state_names) = 3

\* C4: in the bottom-right k_lags x k_lags block of the matrix (rows and columns
\* n_diffs .. k_states-1) the entry at (n_diffs+i, n_diffs+i+1) is 1 for every i
\* in 0..k_lags-2 and every other entry of the block is 0, whatever d, D and S.
C4_CompanionBlock ==
    MatrixDone =>
        \A r \in NDiffs..(KStates - 1), c \in NDiffs..(KStates - 1) :
            T[<<r, c>>] = IF c = r + 1 THEN 1 ELSE 0

C4_Witness ==
    /\ MatrixDone
    /\ order.d > 0 /\ order.D > 0 /\ KLags >= 3
    /\ T[<<NDiffs, NDiffs + 1>>] = 1 /\ T[<<NDiffs + 1, NDiffs + 2>>] = 1
    /\ T[<<0, NDiffs>>] = 1

\* C5: for d > 0 and D = 0 the top-left d x d block of the matrix holds 1 where
\* row <= column and 0 where row > column, and column d holds 1 in rows 0..d-1.
C5_ArimaBlock ==
    (MatrixDone /\ order.d > 0 /\ order.D = 0) =>
        /\ \A r \in 0..(order.d - 1), c \in 0..(order.d - 1) :
              T[<<r, c>>] = IF r <= c THEN 1 ELSE 0
        /\ \A r \in 0..(order.d - 1) : T[<<r, order.d>>] = 1

C5_Witness ==
    /\ MatrixDone /\ order.d = 2 /\ order.D = 0 /\ order.S > 0
    /\ T[<<0, 1>>] = 1 /\ T[<<1, 0>>] = 0 /\ T[<<1, 2>>] = 1

\* the differencing block of the docstring's example D = 1, S = 4
Example_D1_S4 ==
    << <<0, 0, 0, 1, 1>>,
       <<1, 0, 0, 0, 0>>,
       <<0, 1, 0, 0, 0>>,
       <<0, 0, 1, 0, 0>>,
       <<0, 0, 0, 0, 0>> >>

\* the columns where the level is recovered, from seasonal block i on
RecoveryCols(i) ==
    {order.d + order.S * (j + 1) - 1 : j \in i..(order.D - 1)} \cup {NDiffs}

\* C6: for D >= 1 and S >= 1 the rows 0..n_diffs of the matrix are as in the
\* documented examples: a row r < d has ones exactly at columns r..d-1, at the
\* columns d+S*(j+1)-1 (j in 0..D-1) and at column n_diffs; a recovery row d+S*i
\* has ones exactly at the columns d+S*(j+1)-1 (j in i..D-1) and at n_diffs; any
\* other row r in d+1..n_diffs-1 has a single one, at column r-1; row n_diffs
\* has no one in columns 0..n_diffs.
C6_DifferencingRows ==
    (MatrixDone /\ order.D >= 1 /\ order.S >= 1) =>
        /\ \A r \in 0..(order.d - 1) :
              OnesOfRow(r) = (r..(order.d - 1)) \cup RecoveryCols(0)
        /\ \A i \in 0..(order.D - 1) :
              OnesOfRow(order.d + order.S * i) = RecoveryCols(i)
        /\ \A r \in (order.d + 1)..(NDiffs - 1) :
              ((r - order.d) % order.S # 0) => OnesOfRow(r) = {r - 1}
        /\ OnesOfRow(NDiffs) \cap (0..NDiffs) = {}
        /\ (order.d = 0 /\ order.D = 1 /\ order.S = 4 /\ KLags = 1) =>
              \A r \in 0..4, c \in 0..4 : T[<<r, c>>] = Example_D1_S4[r + 1][c + 1]

C6_Witness ==
    /\ MatrixDone /\ order.d = 2 /\ order.D = 2 /\ order.S = 4
    /\ OnesOfRow(0) = {0, 1, 5, 9, 10}
    /\ OnesOfRow(6) = {9, 10}
    /\ OnesOfRow(7) = {6}

\* C9: no name the namer returns contains "^1", "^0", "L0" or "D0", and the
\* first name is "data".
C9_NamesClean ==
    NamesDone =>
        /\ \A i \in 1..Len(state_names) :
              /\ ~Contains(state_names[i], sCaret1)
              /\ ~Contains(state_names[i], sCaret0)
              /\ ~Contains(state_names[i], sL0)
              /\ ~Contains(state_names[i], sD0)
        /\ state_names[1] = sData

C9_Witness ==
    /\ NamesDone /\ order.d = 0 /\ order.D = 2 /\ order.S = 4
    /\ state_names[2] = <<"L", "1", ".", "d", "a", "t", "a">>
    /\ state_names[5] = sD4Data

\* C10: the names are index-aligned with the companion block: with d + D > 0 the
\* name at index n_diffs is "data_star" and the names at n_diffs+i are
\* "state_star_i" (i in 1..k_lags-1); with d + D = 0 the name at index 0 is
\* "data" and the names at i are "state_i"; no name below n_diffs is
\* "data_star" or starts with "state".
C10_NamesAligned ==
    NamesDone =>
        /\ Len(state_names) = NDiffs + KLags
        /\ (order.d + order.D > 0) =>
              /\ state_names[NDiffs + 1] = sDataStar
              /\ \A i \in 1..(KLags - 1) :
                    state_names[NDiffs + i + 1] = sState \o sUStar \o <<"_">> \o Str(i)
        /\ (order.d + order.D = 0) =>
              /\ state_names[1] = sData
              /\ \A i \in 1..(KLags - 1) :
                    state_names[i + 1] = sState \o <<"_">> \o Str(i)
        /\ \A k \in 1..NDiffs :
              /\ state_names[k] # sDataStar
              /\ ~StartsWith(state_names[k], sState)

C10_Witness ==
    /\ NamesDone /\ MatrixDone /\ order.D > 0 /\ order.d > 0 /\ KLags >= 3
    /\ state_names[NDiffs + 1] = sDataStar
    /\ state_names[NDiffs + 2] = sStateStar1
    /\ T[<<NDiffs, NDiffs + 1>>] = 1

\* C2 as stated: cleanup_states(["D1^1.data", "L0.data", "D0^0"]) returns
\* ["D1.data", "data", ""].
C2_AsStated ==
    (CleanupDone /\ states = <<sD1c1Data, sL0Data, sD0c0>>) =>
        out = <<sD1Data, sData, sEmpty>>

\* ------------------------------------------------------ the conformer's claims
Recognized(X) == NameIn(X.name, MATRIX_NAMES) \/ NameIn(X.name, LONG_MATRIX_NAMES)

\* C7 as stated: the call fails with an error whenever neither A nor B carries a
\* recognized name, the same unrecognized name on both included.
C7_AsStated ==
    (ConformDone /\ ~Recognized(A) /\ ~Recognized(B)) => conform_ret.raises = "ValueError"

\* the rank a time-varying matrix of the call's name has
TimeVaryingRank ==
    LET name == IF Recognized(A) THEN A.name ELSE B.name
    IN IF NameIn(name, VECTOR_VALUED) THEN 2 ELSE 3

\* Y is X repeated n times along axis 0, under X's name
Expanded(X, Y, n) ==
    /\ Y.name = X.name
    /\ Y.shape = <<n>> \o Tail(X.shape)
    /\ Len(Y.data) = n
    /\ \A i \in 1..n : Y.data[i] = X.data[1]

\* C8: of a call that returns, when both operands have the time-varying rank and
\* the same trailing shape, one with leading axis 1 and the other with leading
\* axis T > 1, the pair returned has leading axis T on both: the operand of
\* leading axis 1 repeated T times under its own name, the other as it was; when
\* the leading axes are equal, or both differ from 1, or an operand has not the
\* time-varying rank, the pair returned is (A, B) unchanged.
C8_Conformed ==
    (ConformDone /\ conform_ret.raises = "") =>
        LET ranked == ndim(A) = TimeVaryingRank /\ ndim(B) = TimeVaryingRank
            A_out == conform_ret.pair[1]
            B_out == conform_ret.pair[2]
        IN /\ (ranked /\ Tail(A.shape) = Tail(B.shape) /\ A.shape[1] = 1 /\ B.shape[1] > 1) =>
                 Expanded(A, A_out, B.shape[1]) /\ B_out = B
           /\ (ranked /\ Tail(A.shape) = Tail(B.shape) /\ B.shape[1] = 1 /\ A.shape[1] > 1) =>
                 Expanded(B, B_out, A.shape[1]) /\ A_out = A
           /\ (~ranked \/ A.shape[1] = B.shape[1] \/ (A.shape[1] # 1 /\ B.shape[1] # 1)) =>
                 A_out = A /\ B_out = B

C8_Witness ==
    /\ ConformDone /\ conform_ret.raises = ""
    /\ A.name = <<"T">> /\ B.name = NoName
    /\ A.shape = <<1, 2, 2>> /\ B.shape = <<3, 2, 2>>
    /\ conform_ret.pair[1].shape = <<3, 2, 2>>
    /\ conform_ret.pair[1].data = <<A.data[1], A.data[1], A.data[1]>>
    /\ conform_ret.pair[1].name = <<"T">>

====
